---- MODULE Spec2Model ----
(***************************************************************************)
(* Adaptive Math Practice: the leveling / question-selection engine and    *)
(* the practice session that drives it.                                    *)
(*                                                                         *)
(*   db_manager.py        user_progress table, save_user_progress,         *)
(*                        get_user_progress, calculate_user_level          *)
(*   config.py            LEVEL_RANGES and the assessment parameters       *)
(*   practice_window.py   ImageWindow: show_next_image,                    *)
(*                        process_current_question, select_next_question,  *)
(*                        on_checkbox_click, the countdown, on_closing     *)
(*                                                                         *)
(*   gui_components.py    RegistrationWindow.register_user                 *)
(*                                                                         *)
(* The specifications:                                                     *)
(*   SpecLevel    calculate_user_level applied to a bounded family of      *)
(*                stored histories (one call per behaviour);               *)
(*   Spec         one practice session (ImageWindow) over a stored         *)
(*                history;                                                 *)
(*   SpecTimer    a session in which the whole countdown of the first      *)
(*                question is followed;                                    *)
(*   SpecStore    the clients of DatabaseManager calling it on a new       *)
(*                database: registrations, saves, reads, level             *)
(*                computations;                                            *)
(*   SpecLive     a session whose user keeps answering and never closes    *)
(*                the window, for termination;                             *)
(*   SpecClock    a session during which the wall clock may be set back;   *)
(*   SpecRegister registration windows of several application instances    *)
(*                on one database;                                         *)
(*   SpecReview   the review views of a session and the explanations       *)
(*                requested for them in the background.                    *)
(***************************************************************************)
EXTENDS Integers, Sequences, FiniteSets, TLC

VARIABLES
    progress_table,            \* rows of table user_progress, in rowid order
    now,                       \* the wall clock, whole seconds: time.time()
                               \* and the store's CURRENT_TIMESTAMP
    user_progress,             \* the list calculate_user_level last fetched
    user_level,                \* ImageWindow.user_level
    available_questions,       \* ImageWindow.available_questions
    current_question_data,     \* ImageWindow.current_question_data
    option,                    \* ImageWindow.option
    choice_made,               \* ImageWindow.choice_made
    start_time,                \* ImageWindow.start_time
    timer_seconds,             \* ImageWindow.timer_seconds
    after_id,                  \* ImageWindow.after_id: a tick is scheduled
    question_selection_method, \* ImageWindow.question_selection_method
    win,                       \* "constructing" | "running" | "closed"
    served,                    \* history: the questions opened, in order
    initial_rows,              \* history: Len(progress_table) at session start
    level_calls,               \* history: the calls of calculate_user_level
    save_log,                  \* history: the calls of save_user_progress
                               \* that returned
    users,                     \* table users: username -> password hash
    store_call,                \* history: the latest call of the store made
                               \* by a client other than a session, its
                               \* result and the number of such calls
    raised,                    \* history: an exception left a handler
    last_click,                \* history: the letter of the latest click on
                               \* the open question
    overwritten,               \* history: a click replaced another letter
                               \* chosen for the open question
    completed,                 \* history: "Practice Set Complete" was shown
    pending_ticks,             \* update_timer callbacks scheduled with
                               \* after() that have neither fired nor been
                               \* cancelled
    specific_question_windows, \* ImageWindow.specific_question_windows:
                               \* image path -> the review view registered
                               \* for it and whether its window exists
    views_opened,              \* the review views created so far; the
                               \* n-th one is view n
    ai_workers,                \* the _ai_solution_worker threads running
    ai_processing_queue,       \* ImageWindow._ai_processing_queue
    applied,                   \* history: the results written to a view
    registration               \* the RegistrationWindows of the application
                               \* instances on one database, by instance

vars == <<progress_table, now, user_progress, user_level, available_questions,
          current_question_data, option, choice_made, start_time,
          timer_seconds, after_id, question_selection_method, win, served,
          initial_rows, level_calls, save_log, users, store_call, raised,
          last_click, overwritten, completed, pending_ticks,
          specific_question_windows, views_opened, ai_workers,
          ai_processing_queue, applied, registration>>

\* the tables and the store history a session leaves alone
store_side == <<users, store_call>>
\* the explanation requests and the registration windows, which the
\* handlers of the practice session and the calls of the store leave alone
background == <<views_opened, ai_workers, ai_processing_queue, applied,
                registration>>

(***************************************************************************)
(* Bounds of the model.                                                    *)
(***************************************************************************)
\* questions in the practice set handed to a session
MaxQuestions == 2
\* the user clicks the first or the MaxLetters-th option letter
MaxLetters == 2
\* countdown ticks followed per question in Spec
MaxTicks == 1
\* seconds that pass between showing a question and the next accepted
\* "Next Question": none (the same second) or MaxElapsed
MaxElapsed == 1
\* attempts older than the assessment window in a generated history
MaxOlder == 2
\* attempts without a question number / outside every range in a history
MaxNoise == 2
\* calls of the store followed in SpecStore
MaxStoreCalls == 4
\* seconds by which the wall clock is set back at once in SpecClock
MaxSetBack == 1
\* application instances with a registration window in SpecRegister
MaxRegistrations == 3
\* review views opened in SpecReview
MaxViews == 3

(***************************************************************************)
(* config.py                                                               *)
(***************************************************************************)
TIMER_DURATION == 150
QUESTIONS_FOR_LEVEL_ASSESSMENT == 25
CORRECT_ANSWERS_TO_LEVEL_UP == 21
OPTION_LETTERS == <<"A", "B", "C", "D", "E">>

\* range(1, 6), range(6, 11), ...: inclusive start, exclusive end
PyRange(start, stop) == start..(stop - 1)
LEVEL_RANGES ==
    [level \in 1..5 |->
        CASE level = 1 -> PyRange(1, 6)
          [] level = 2 -> PyRange(6, 11)
          [] level = 3 -> PyRange(11, 16)
          [] level = 4 -> PyRange(16, 21)
          [] level = 5 -> PyRange(21, 26)]

\* Python's None, for an integer field and for a text field
NoneNum == -1
\* a Python int of 2**63 or more, as json.load reads it from metadata.json
\* (the integers of the model are narrower, so the value is a token)
TooLargeNum == -2
NoneStr == "None"
NoQuestion == [image_filename |-> 0, question_number |-> NoneNum,
               correct_answer |-> NoneStr]

\* no review view is open
NoWindows == [image_path \in {} |-> 0]

Min(a, b) == IF a <= b THEN a ELSE b
Max(a, b) == IF a >= b THEN a ELSE b
Reverse(s) == [i \in 1..Len(s) |-> s[Len(s) + 1 - i]]

(***************************************************************************)
(* db_manager.py: the progress store                                       *)
(***************************************************************************)
\* One row of user_progress as save_user_progress inserts it. attempt_date
\* is the column default CURRENT_TIMESTAMP (whole seconds).
ProgressRow(username, q_num, img_filename, user_choice, correct_choice, answer_time, attempt_date) ==
    [username |-> username, question_number |-> q_num,
     image_filename |-> img_filename, user_choice |-> user_choice,
     correct_choice |-> correct_choice, answer_time |-> answer_time,
     attempt_date |-> attempt_date]

\* (mutant) the INSERT is carried out twice
save_user_progress_Twice(table, row, db_ok) ==
    IF db_ok THEN Append(Append(table, row), row) ELSE table

\* (mutant) the row is written although the call reports failure
save_user_progress_Always(table, row, db_ok) == Append(table, row)

\* save_user_progress: the connection or the INSERT may fail (db_ok = FALSE),
\* then nothing is written and the call returns False.
save_user_progress(table, row, db_ok) ==
    IF db_ok THEN Append(table, row) ELSE table

\* First and last index of the run of rows dated d around index i.
RECURSIVE DateGroupStart(_, _, _)
DateGroupStart(rows, i, d) ==
    IF i >= 1 /\ rows[i].attempt_date = d
    THEN DateGroupStart(rows, i - 1, d)
    ELSE i + 1
RECURSIVE DateGroupEnd(_, _, _)
DateGroupEnd(rows, i, d) ==
    IF i <= Len(rows) /\ rows[i].attempt_date = d
    THEN DateGroupEnd(rows, i + 1, d)
    ELSE i - 1

\* ORDER BY attempt_date DESC over rows given in rowid order. The store's
\* clock does not run backwards, so rowid order is attempt_date ascending
\* and the rows of one second are adjacent. SQL leaves the order of rows
\* with equal attempt_date open: tie is the order the engine produces for
\* them, by rowid ascending (an index or table scan) or descending.
TieOrders == {"rowid_asc", "rowid_desc"}
OrderByAttemptDateDesc(rows, tie) ==
    [i \in 1..Len(rows) |->
        LET j == Len(rows) + 1 - i
            d == rows[j].attempt_date
        IN  IF tie = "rowid_desc" THEN rows[j]
            ELSE rows[DateGroupStart(rows, j, d) + (DateGroupEnd(rows, j, d) - j)]]

\* get_user_progress: [] when the connection or the query fails.
get_user_progress(table, username, db_ok, tie) ==
    IF ~db_ok THEN <<>>
    ELSE LET OfUser(r) == r.username = username
         IN  OrderByAttemptDateDesc(SelectSeq(table, OfUser), tie)

\* conn.execute(query, parameters) of save_user_progress: sqlite3 binds a
\* Python int as a 64-bit INTEGER and raises OverflowError for a larger
\* one. OverflowError is no sqlite3.Error: the except clause does not catch
\* it and it leaves save_user_progress (the transaction is rolled back).
BindsParameters(row) == row.question_number # TooLargeNum

\* FOREIGN KEY (username) REFERENCES users(username), with
\* PRAGMA foreign_keys = ON set by _get_connection: the INSERT fails with
\* sqlite3.IntegrityError for a username that is not in users
ForeignKeyHolds(user_table, username) == username \in DOMAIN user_table

\* the outcome of one call of save_user_progress:
\* "True", "False" or "raises"; the row is written for "True" only
SaveOutcome(user_table, row, db_ok) ==
    IF ~db_ok THEN "False"
    ELSE IF ~BindsParameters(row) THEN "raises"
    ELSE IF ~ForeignKeyHolds(user_table, row.username) THEN "False"
    ELSE "True"

\* get_user_hash: None when the connection or the query fails and when
\* there is no such user
get_user_hash(user_table, username, db_ok) ==
    IF db_ok /\ username \in DOMAIN user_table THEN user_table[username]
    ELSE NoneStr

\* ON DELETE CASCADE of user_progress.username: the rows that go with a
\* deleted row of users
CascadeDelete(table, username) ==
    LET OfOthers(r) == r.username # username
    IN  SelectSeq(table, OfOthers)

\* (mutant) INSERT OR IGNORE: the row of an existing username is kept
add_user_Ignore(user_table, table, username, hashed_password, db_ok) ==
    IF ~db_ok THEN [users |-> user_table, progress |-> table, success |-> FALSE]
    ELSE [users |-> [u \in DOMAIN user_table \cup {username} |->
                        IF u \in DOMAIN user_table THEN user_table[u]
                        ELSE hashed_password],
          progress |-> table,
          success |-> TRUE]

\* add_user: INSERT OR REPLACE INTO users. For a username that is in users
\* REPLACE deletes the row, which deletes the user's rows of user_progress
\* (foreign keys are ON), and inserts the new one. The result is the two
\* tables and the value returned.
add_user(user_table, table, username, hashed_password, db_ok) ==
    IF ~db_ok THEN [users |-> user_table, progress |-> table, success |-> FALSE]
    ELSE [users |-> [u \in DOMAIN user_table \cup {username} |->
                        IF u = username THEN hashed_password ELSE user_table[u]],
          progress |-> IF username \in DOMAIN user_table
                       THEN CascadeDelete(table, username)
                       ELSE table,
          success |-> TRUE]

(***************************************************************************)
(* db_manager.py: calculate_user_level, lines 219-265, on the fetched list *)
(***************************************************************************)
num_levels == Cardinality(DOMAIN LEVEL_RANGES)

\* attempt[2] is not None and attempt[2] in level_range
LevelAttempts(progress, level) ==
    LET AtLevel(attempt) ==
            /\ attempt.question_number # NoneNum
            /\ attempt.question_number \in LEVEL_RANGES[level]
    IN  SelectSeq(progress, AtLevel)

\* (mutant) more than the assessment count is asked for
EnoughAttempts_Strict(level_attempts) ==
    Len(level_attempts) > QUESTIONS_FOR_LEVEL_ASSESSMENT

\* len(level_attempts) >= config.QUESTIONS_FOR_LEVEL_ASSESSMENT
EnoughAttempts(level_attempts) ==
    Len(level_attempts) >= QUESTIONS_FOR_LEVEL_ASSESSMENT

\* level_attempts[:config.QUESTIONS_FOR_LEVEL_ASSESSMENT]
RecentAttemptsAtLevel(level_attempts) ==
    SubSeq(level_attempts, 1,
           Min(Len(level_attempts), QUESTIONS_FOR_LEVEL_ASSESSMENT))

\* sum(1 for attempt in recent if attempt[5] is not None and
\*                                attempt[5] == attempt[6])
CorrectCount(recent_attempts_at_level) ==
    Cardinality({i \in 1..Len(recent_attempts_at_level) :
        /\ recent_attempts_at_level[i].user_choice # NoneStr
        /\ recent_attempts_at_level[i].user_choice
               = recent_attempts_at_level[i].correct_choice})

\* (mutant) the threshold itself passes
MeetsThreshold_AtLeast(correct_count) ==
    correct_count >= CORRECT_ANSWERS_TO_LEVEL_UP

\* correct_count > config.CORRECT_ANSWERS_TO_LEVEL_UP
MeetsThreshold(correct_count) == correct_count > CORRECT_ANSWERS_TO_LEVEL_UP

\* (mutant) the loop goes on to the next level where it should break
RECURSIVE HighestLevelPassed_NoBreak(_, _, _)
HighestLevelPassed_NoBreak(progress, level, highest_level_passed) ==
    IF level > num_levels THEN highest_level_passed
    ELSE LET level_attempts == LevelAttempts(progress, level)
         IN  IF /\ EnoughAttempts(level_attempts)
                /\ MeetsThreshold(
                       CorrectCount(RecentAttemptsAtLevel(level_attempts)))
             THEN HighestLevelPassed_NoBreak(progress, level + 1, level)
             ELSE HighestLevelPassed_NoBreak(progress, level + 1,
                                             highest_level_passed)

\* the for loop over range(1, num_levels + 1): the value of
\* highest_level_passed when the loop ends or breaks
RECURSIVE HighestLevelPassed(_, _, _)
HighestLevelPassed(progress, level, highest_level_passed) ==
    IF level > num_levels THEN highest_level_passed
    ELSE IF level \notin DOMAIN LEVEL_RANGES
    THEN HighestLevelPassed(progress, level + 1, highest_level_passed)
    ELSE LET level_attempts == LevelAttempts(progress, level)
         IN  IF EnoughAttempts(level_attempts)
             THEN IF MeetsThreshold(
                        CorrectCount(RecentAttemptsAtLevel(level_attempts)))
                  THEN HighestLevelPassed(progress, level + 1, level)
                  ELSE highest_level_passed
             ELSE highest_level_passed

\* (mutant) the cap at the last level is missing
CurrentLevel_Uncapped(highest_level_passed) == highest_level_passed + 1

\* current_level = min(highest_level_passed + 1, num_levels)
CurrentLevel(highest_level_passed) ==
    Min(highest_level_passed + 1, num_levels)

\* (mutant) an empty list is taken for a ladder passed to the top
LevelFromProgress_TopWhenEmpty(progress) ==
    IF progress = <<>> THEN num_levels
    ELSE CurrentLevel(HighestLevelPassed(progress, 1, 0))

\* calculate_user_level after the fetch
LevelFromProgress(progress) ==
    IF progress = <<>> THEN 1
    ELSE CurrentLevel(HighestLevelPassed(progress, 1, 0))

(***************************************************************************)
(* Stored histories the model starts from. A history is written newest     *)
(* first as blocks of attempts, one block per level; the table holds it in *)
(* rowid order with one second between consecutive earlier attempts.       *)
(***************************************************************************)
USERNAME == "alice"
OTHER_USER == "bob"

Letter(i) == OPTION_LETTERS[((i - 1) % Len(OPTION_LETTERS)) + 1]
RangeStart(level) ==
    CHOOSE m \in LEVEL_RANGES[level] : \A x \in LEVEL_RANGES[level] : m <= x
RangeSize(level) == Cardinality(LEVEL_RANGES[level])

\* A block profile <<a, b, c, d>>: newest first, a wrong attempts, then b
\* correct ones, then c wrong ones, then d correct ones.
BlockLen(p) == p[1] + p[2] + p[3] + p[4]
BlockCorrect(p, i) ==
    \/ (p[1] < i /\ i <= p[1] + p[2])
    \/ p[1] + p[2] + p[3] < i

Block(level, p) ==
    LET first == RangeStart(level)
        size == RangeSize(level)
    IN  [i \in 1..BlockLen(p) |->
            ProgressRow(USERNAME, first + ((i - 1) % size),
                        first + ((i - 1) % size),
                        IF BlockCorrect(p, i) THEN Letter(i) ELSE Letter(i + 1),
                        Letter(i), 0, 0)]

\* Attempts that belong to no level of USERNAME: no question number, a
\* number just outside the last range, number 0, and another user's correct
\* attempt at level 1.
NoiseRow(i) ==
    CASE i % 4 = 1 -> ProgressRow(USERNAME, NoneNum, i, Letter(i), Letter(i), 0, 0)
      [] i % 4 = 2 -> ProgressRow(OTHER_USER, RangeStart(1), i, Letter(i), Letter(i), 0, 0)
      [] i % 4 = 3 -> ProgressRow(USERNAME, RangeStart(num_levels) + RangeSize(num_levels),
                                  i, Letter(i), Letter(i), 0, 0)
      [] OTHER     -> ProgressRow(USERNAME, 0, i, Letter(i), Letter(i), 0, 0)
Noise(n) == [i \in 1..n |-> NoiseRow(i)]

RECURSIVE Blocks(_, _, _)
Blocks(profiles, level, ascending) ==
    IF level > num_levels THEN <<>>
    ELSE IF ascending
         THEN Block(level, profiles[level]) \o Blocks(profiles, level + 1, ascending)
         ELSE Blocks(profiles, level + 1, ascending) \o Block(level, profiles[level])

\* The table for a newest-first history: rowid order is oldest first, the
\* j-th row is dated j.
TableOf(history) ==
    [j \in 1..Len(history) |->
        [history[Len(history) + 1 - j] EXCEPT !.attempt_date = j]]

P_none == <<0, 0, 0, 0>>
P_short == <<0, QUESTIONS_FOR_LEVEL_ASSESSMENT - 1, 0, 0>>
P_all_correct == <<0, QUESTIONS_FOR_LEVEL_ASSESSMENT, 0, 0>>
P_pass_min ==
    <<QUESTIONS_FOR_LEVEL_ASSESSMENT - CORRECT_ANSWERS_TO_LEVEL_UP - 1,
      CORRECT_ANSWERS_TO_LEVEL_UP + 1, 0, 0>>
P_fail_max ==
    <<QUESTIONS_FOR_LEVEL_ASSESSMENT - CORRECT_ANSWERS_TO_LEVEL_UP,
      CORRECT_ANSWERS_TO_LEVEL_UP, 0, 0>>
P_pass_old_wrong ==
    <<0, CORRECT_ANSWERS_TO_LEVEL_UP + 1,
      QUESTIONS_FOR_LEVEL_ASSESSMENT - CORRECT_ANSWERS_TO_LEVEL_UP - 1 + MaxOlder, 0>>
P_fail_old_right ==
    <<QUESTIONS_FOR_LEVEL_ASSESSMENT - CORRECT_ANSWERS_TO_LEVEL_UP,
      CORRECT_ANSWERS_TO_LEVEL_UP + MaxOlder, 0, 0>>

LevelProfiles == {P_none, P_short, P_all_correct, P_pass_min, P_fail_max,
                  P_pass_old_wrong, P_fail_old_right}

PassProfiles == {P_all_correct, P_pass_min, P_pass_old_wrong}
AboveProfiles == {P_none, P_all_correct}

\* histories for SpecLevel: passing profiles below a gate level, any profile
\* at the gate, and nothing or a full window of correct attempts above it
GatedProfiles(gate) ==
    {profiles \in [1..num_levels -> LevelProfiles] :
        \A level \in 1..num_levels :
            /\ level < gate => profiles[level] \in PassProfiles
            /\ level > gate => profiles[level] \in AboveProfiles}
LevelTable(profiles, n, ascending) ==
    TableOf(Noise(n) \o Blocks(profiles, 1, ascending))

\* histories for Spec: the first k levels just passed, nothing above, for
\* no level, one level and every level passed
SessionPassedLevels == {0, 1, num_levels}
PassedPrefix(k) == [level \in 1..num_levels |-> IF level <= k THEN P_pass_min ELSE P_none]
SessionTable(k) == TableOf(Blocks(PassedPrefix(k), 1, TRUE))

(***************************************************************************)
(* The practice set handed to a session (metadata.json, read by           *)
(* LoginApp.load_metadata_and_start). A question is identified by its      *)
(* image filename, which show_next_image takes to be unique in the set.    *)
(***************************************************************************)
QuestionNumberOf(i) ==
    CASE i % 4 = 1 -> RangeStart(1) + 2
      [] i % 4 = 2 -> NoneNum
      [] i % 4 = 3 -> RangeStart(2) + 1
      [] OTHER     -> RangeStart(num_levels) + RangeSize(num_levels)
Question(i) == [image_filename |-> i, question_number |-> QuestionNumberOf(i),
                correct_answer |-> Letter(i)]
questions_data == [i \in 1..MaxQuestions |-> Question(i)]
Methods == {"Random", "AI Selection"}
ClickLetters == {OPTION_LETTERS[1], OPTION_LETTERS[MaxLetters]}

SeqToSet(s) == {s[i] : i \in DOMAIN s}

(***************************************************************************)
(* practice_window.py: ImageWindow                                         *)
(***************************************************************************)
\* calculate_user_level(username): fetch, then compute. The pair is the list
\* fetched and the level returned.
calculate_user_level(table, username, db_ok, tie) ==
    LET progress == get_user_progress(table, username, db_ok, tie)
    IN  [progress |-> progress, level |-> LevelFromProgress(progress)]

\* eligible_questions of select_next_question
EligibleQuestions(pool, target_level) ==
    {q \in SeqToSet(pool) :
        /\ q.question_number # NoneNum
        /\ q.question_number \in LEVEL_RANGES[target_level]}

\* (mutant) the choice is made over the whole practice set
select_from_practice_set(pool, method, target_level) == SeqToSet(questions_data)

\* (mutant) the level is ignored
select_ignoring_level(pool, method, target_level) == SeqToSet(pool)

\* (mutant) no fallback when no question is eligible
select_without_fallback(pool, method, target_level) ==
    IF pool = <<>> THEN {}
    ELSE IF method = "AI Selection"
    THEN IF target_level \notin DOMAIN LEVEL_RANGES THEN {}
         ELSE EligibleQuestions(pool, target_level)
    ELSE SeqToSet(pool)

\* select_next_question after the level is known: the questions random.choice
\* may return; {} stands for None.
select_next_question(pool, method, target_level) ==
    IF pool = <<>> THEN {}
    ELSE IF method = "Random" THEN SeqToSet(pool)
    ELSE IF method = "AI Selection"
    THEN IF target_level \notin DOMAIN LEVEL_RANGES THEN SeqToSet(pool)
         ELSE IF EligibleQuestions(pool, target_level) # {}
              THEN EligibleQuestions(pool, target_level)
              ELSE SeqToSet(pool)
    ELSE SeqToSet(pool)

\* (mutant) the level is kept when the new one is lower
AssignedLevel_Ratchet(returned_level, previous_level) ==
    Max(returned_level, previous_level)

\* (mutant) the level of the session start is kept
AssignedLevel_Cached(returned_level, previous_level) == previous_level

\* self.user_level = self.db_manager.calculate_user_level(self.username)
AssignedLevel(returned_level, previous_level) == returned_level

\* one entry of level_calls: the level returned, the rows fetched and the
\* rows of the user the table held
LevelCall(table, calc) ==
    LET OfUser(r) == r.username = USERNAME
    IN  [level |-> calc.level, fetched |-> Len(calc.progress),
         stored |-> Len(SelectSeq(table, OfUser))]

\* (mutant) the selected question stays in the list
RemoveQuestion_Keep(pool, filename_to_remove) == pool

\* [q for q in available_questions if q['image_filename'] != filename_to_remove]
RemoveQuestion(pool, filename_to_remove) ==
    LET Keep(q) == q.image_filename # filename_to_remove
    IN  SelectSeq(pool, Keep)

\* (mutant) the difference of the two readings is stored as it is
AnswerTime_Unclamped(start, end_time) ==
    IF start > 0 THEN end_time - start ELSE 0

\* max(0, int(end_time - self.start_time)) if self.start_time > 0 else 0
AnswerTime(start, end_time) ==
    IF start > 0 THEN Max(0, end_time - start) ELSE 0

\* the row process_current_question hands to save_user_progress
AttemptRow(q_data, user_choice, answer_time, attempt_date) ==
    ProgressRow(USERNAME, q_data.question_number, q_data.image_filename,
                user_choice, q_data.correct_answer, answer_time, attempt_date)

\* process_current_question: the table afterwards. Nothing is saved when no
\* question is open or no option is stored.
process_current_question(table, q_data, user_choice, start, end_time, attempt_date, db_ok) ==
    IF q_data = NoQuestion \/ user_choice = NoneStr THEN table
    ELSE save_user_progress(table,
            AttemptRow(q_data, user_choice, AnswerTime(start, end_time),
                       attempt_date),
            db_ok)

\* initialize_variables, for the store contents `table`
initialize_variables(table, method, db_ok, tie) ==
    LET calc == calculate_user_level(table, USERNAME, db_ok, tie) IN
    /\ progress_table' = table
    /\ now' = now
    /\ user_progress' = calc.progress
    /\ user_level' = calc.level
    /\ available_questions' = questions_data
    /\ current_question_data' = NoQuestion
    /\ option' = NoneStr
    /\ choice_made' = TRUE
    /\ start_time' = 0
    /\ timer_seconds' = TIMER_DURATION
    /\ after_id' = FALSE
    /\ question_selection_method' = method
    /\ win' = "constructing"
    /\ served' = <<>>
    /\ initial_rows' = Len(table)
    /\ level_calls' = <<LevelCall(table, calc)>>
    /\ save_log' = <<>>
    /\ raised' = FALSE
    /\ last_click' = NoneStr
    /\ overwritten' = FALSE
    /\ completed' = FALSE
    /\ pending_ticks' = 0
    /\ specific_question_windows' = NoWindows
    /\ UNCHANGED <<store_side, background>>

\* LoginApp.load_metadata_and_start: ImageWindow.__init__ up to and
\* including initialize_variables, with the method chosen in the combobox
StartPractice ==
    /\ win = "login"
    /\ \E db_ok \in BOOLEAN, tie \in TieOrders :
           initialize_variables(progress_table, question_selection_method,
                                db_ok, tie)

\* (mutant) the test for a missing choice is gone
NextBlocked_Never(choice, q_data) == FALSE

\* if not self.choice_made and self.current_question_data is not None
NextBlocked(choice, q_data) == ~choice /\ q_data # NoQuestion

\* show_next_image, rejected: no choice made for the open question. The
\* warning is shown and the handler returns.
NextRejected ==
    /\ win = "running"
    /\ NextBlocked(choice_made, current_question_data)
    /\ UNCHANGED vars

\* (mutant) the tick scheduled earlier is left pending
CancelPending_Skip(handle, pending) == pending

\* if self.after_id: self.after_cancel(self.after_id). The handle is that of
\* the tick scheduled last.
CancelPending(handle, pending) ==
    IF handle /\ pending > 0 THEN pending - 1 ELSE pending

\* (mutant) the window is not destroyed
on_closing_effect_StaysOpen ==
    /\ after_id' = FALSE
    /\ pending_ticks' = CancelPending(after_id, pending_ticks)
    /\ specific_question_windows' = NoWindows
    /\ win' = win

\* on_closing: cancel the pending tick, close the review views, destroy
\* the window
on_closing_effect ==
    /\ after_id' = FALSE
    /\ pending_ticks' = CancelPending(after_id, pending_ticks)
    /\ specific_question_windows' = NoWindows
    /\ win' = "closed"

\* reset_question_state: reset_timer runs update_timer once, which shows
\* TIMER_DURATION, decrements and schedules the next tick
reset_question_state ==
    /\ choice_made' = FALSE
    /\ option' = NoneStr
    /\ start_time' = now'
    /\ timer_seconds' = IF TIMER_DURATION <= 0 THEN TIMER_DURATION
                        ELSE TIMER_DURATION - 1
    /\ after_id' = (TIMER_DURATION > 0)
    /\ pending_ticks' = CancelPending(after_id, pending_ticks)
                         + (IF TIMER_DURATION > 0 THEN 1 ELSE 0)
    /\ last_click' = NoneStr
    /\ overwritten' = FALSE

\* show_next_image, accepted: called by __init__ for the first question and
\* by the Next Question button afterwards. When save_user_progress raises,
\* the exception leaves process_current_question and show_next_image: the
\* handler ends there and the window stays as it is.
show_next_image ==
    /\ win \in {"constructing", "running"}
    /\ ~NextBlocked(choice_made, current_question_data)
    /\ \E elapsed \in {0, MaxElapsed}, save_ok \in BOOLEAN :
         LET saves == current_question_data # NoQuestion /\ option # NoneStr
             end_time == IF current_question_data # NoQuestion
                         THEN now + elapsed ELSE now
             outcome == IF saves
                        THEN SaveOutcome(users,
                                 AttemptRow(current_question_data, option,
                                     AnswerTime(start_time, end_time), end_time),
                                 save_ok)
                        ELSE "none"
             table == process_current_question(progress_table,
                          current_question_data, option, start_time, end_time,
                          end_time, outcome = "True")
         IN  IF outcome = "raises"
             THEN /\ elapsed = 0
                  /\ raised' = TRUE
                  /\ UNCHANGED <<progress_table, now, user_progress, user_level,
                                 available_questions, current_question_data,
                                 option, choice_made, start_time, timer_seconds,
                                 after_id, pending_ticks, win, specific_question_windows, served, level_calls, save_log,
                                 last_click, overwritten, completed>>
             ELSE
             /\ progress_table' = table
             /\ now' = end_time
             /\ raised' = raised
             /\ save_log' =
                    IF saves
                    THEN Append(save_log,
                             [image_filename |-> current_question_data.image_filename,
                              success |-> (outcome = "True")])
                    ELSE save_log
             /\ IF available_questions = <<>>
                THEN \* "Practice Set Complete", on_closing
                     /\ completed' = TRUE
                     /\ on_closing_effect
                     /\ UNCHANGED <<user_progress, user_level, available_questions,
                                    current_question_data, option, choice_made,
                                    start_time, timer_seconds, served, level_calls,
                                    last_click, overwritten>>
                ELSE \E read_ok \in BOOLEAN, tie \in TieOrders :
                       LET calc == calculate_user_level(table, USERNAME, read_ok, tie)
                           adaptive == question_selection_method = "AI Selection"
                           level == IF adaptive
                                    THEN AssignedLevel(calc.level, user_level)
                                    ELSE user_level
                           selectable == select_next_question(available_questions,
                                             question_selection_method, level)
                       IN  /\ user_level' = level
                           /\ user_progress' = IF adaptive THEN calc.progress
                                               ELSE user_progress
                           /\ level_calls' = IF adaptive
                                             THEN Append(level_calls, LevelCall(table, calc))
                                             ELSE level_calls
                           /\ completed' = completed
                           /\ IF selectable = {}
                              THEN \* "Could not select next question."
                                   UNCHANGED <<available_questions,
                                               current_question_data, option,
                                               choice_made, start_time,
                                               timer_seconds, after_id, pending_ticks, win, specific_question_windows, served,
                                               last_click, overwritten>>
                              ELSE /\ \E next_question \in selectable :
                                        /\ current_question_data' = next_question
                                        /\ available_questions' =
                                               RemoveQuestion(available_questions,
                                                   next_question.image_filename)
                                        /\ served' = Append(served, next_question)
                                   /\ reset_question_state
                                   /\ win' = "running"
                                   /\ specific_question_windows'
                                          = specific_question_windows
    /\ UNCHANGED <<question_selection_method, initial_rows, store_side, background>>

\* (mutant) a click on the letter already chosen takes the choice back
ChosenOption_Toggle(previous_option, selected_option) ==
    IF previous_option = selected_option THEN NoneStr ELSE selected_option

\* (mutant) a letter chosen earlier is kept
ChosenOption_First(previous_option, selected_option) ==
    IF previous_option = NoneStr THEN selected_option ELSE previous_option

\* self.option = selected_option
ChosenOption(previous_option, selected_option) == selected_option

\* on_checkbox_click(selected_option)
on_checkbox_click ==
    /\ win = "running"
    /\ \E selected_option \in ClickLetters :
         /\ option' = ChosenOption(option, selected_option)
         /\ choice_made' = TRUE
         /\ last_click' = selected_option
         /\ overwritten' = (overwritten \/ last_click \notin {NoneStr, selected_option})
    /\ UNCHANGED <<progress_table, now, user_progress, user_level,
                   available_questions, current_question_data, start_time,
                   timer_seconds, after_id, pending_ticks, question_selection_method, win, specific_question_windows,
                   served, initial_rows, level_calls, save_log, store_side, background,
                   raised, completed>>

\* (mutant) at expiry the question is given up: an empty answer is stored
\* and the question counts as answered
update_timer_GivesUp ==
    /\ win = "running"
    /\ pending_ticks > 0
    /\ IF timer_seconds <= 0
       THEN /\ after_id' = FALSE
            /\ pending_ticks' = pending_ticks - 1
            /\ option' = NoneStr
            /\ choice_made' = TRUE
            /\ UNCHANGED timer_seconds
       ELSE /\ timer_seconds' = timer_seconds - 1
            /\ after_id' = TRUE
            /\ pending_ticks' = pending_ticks
            /\ UNCHANGED <<option, choice_made>>
    /\ UNCHANGED <<progress_table, now, user_progress, user_level,
                   available_questions, current_question_data,
                   start_time, question_selection_method, win, specific_question_windows,
                   served, initial_rows, level_calls, save_log, store_side, background,
                   raised, last_click, overwritten, completed>>

\* update_timer, run by a scheduled tick: the tick is consumed; at 0 the
\* handle is cleared, otherwise the next tick is scheduled
update_timer ==
    /\ win = "running"
    /\ pending_ticks > 0
    /\ IF timer_seconds <= 0
       THEN /\ after_id' = FALSE
            /\ pending_ticks' = pending_ticks - 1
            /\ UNCHANGED timer_seconds
       ELSE /\ timer_seconds' = timer_seconds - 1
            /\ after_id' = TRUE
            /\ pending_ticks' = pending_ticks
    /\ UNCHANGED <<progress_table, now, user_progress, user_level,
                   available_questions, current_question_data, option,
                   choice_made, start_time, question_selection_method, win, specific_question_windows,
                   served, initial_rows, level_calls, save_log, store_side, background,
                   raised, last_click, overwritten, completed>>

\* on_closing, from the window manager
on_closing ==
    /\ win = "running"
    /\ on_closing_effect
    /\ UNCHANGED <<progress_table, now, user_progress, user_level,
                   available_questions, current_question_data, option,
                   choice_made, start_time, timer_seconds,
                   question_selection_method, served, initial_rows,
                   level_calls, save_log, store_side, background, raised, last_click,
                   overwritten, completed>>

\* the ticks of one countdown that Spec follows
TickFollowed == TIMER_DURATION - 1 - timer_seconds < MaxTicks

(***************************************************************************)
(* Specifications                                                          *)
(***************************************************************************)
\* bcrypt hashes, and the users table of the stored histories
Hashes == {"hash1", "hash2"}
RegisteredUsers == [u \in {USERNAME, OTHER_USER} |-> "hash1"]
NoCall == [op |-> "none", username |-> NoneStr, arg |-> NoneStr,
           before |-> NoneStr, result |-> "none", n |-> 0]

\* the practice sets of Spec: the standard one, and for a user without
\* history also the one whose last question carries a number of 2**63
oversized_questions_data ==
    [questions_data EXCEPT ![MaxQuestions].question_number = TooLargeNum]
PracticeSets(k) ==
    IF k = 0 THEN {questions_data, oversized_questions_data}
    ELSE {questions_data}

\* no explanation was requested and no registration window is open
NoRegistrations == [instance \in {} |-> NoneStr]
InitBackground ==
    /\ views_opened = 0
    /\ ai_workers = {}
    /\ ai_processing_queue = <<>>
    /\ applied = {}
    /\ registration = NoRegistrations

BeforeSession(table) ==
    /\ progress_table = table
    /\ now = Len(table) + 1
    /\ user_progress = <<>>
    /\ user_level = 0
    /\ available_questions = <<>>
    /\ current_question_data = NoQuestion
    /\ option = NoneStr
    /\ choice_made = TRUE
    /\ start_time = 0
    /\ timer_seconds = TIMER_DURATION
    /\ after_id = FALSE
    /\ pending_ticks = 0
    /\ specific_question_windows = NoWindows
    /\ InitBackground
    /\ question_selection_method = "AI Selection"
    /\ win = "login"
    /\ served = <<>>
    /\ initial_rows = Len(table)
    /\ level_calls = <<>>
    /\ save_log = <<>>
    /\ users = RegisteredUsers
    /\ store_call = NoCall
    /\ raised = FALSE
    /\ last_click = NoneStr
    /\ overwritten = FALSE
    /\ completed = FALSE

\* SpecLevel: a stored history, then the level computation of a new session
InitLevel ==
    \E gate \in 1..(num_levels + 1), ascending \in BOOLEAN :
      \E profiles \in GatedProfiles(gate) :
        BeforeSession(LevelTable(profiles, IF ascending THEN 0 ELSE MaxNoise,
                                 ascending))
NextLevel == StartPractice
SpecLevel == InitLevel /\ [][NextLevel]_vars

\* Spec: the session after initialize_variables
Init ==
    \E k \in SessionPassedLevels, method \in Methods, db_ok \in BOOLEAN,
       tie \in TieOrders :
     \E data \in PracticeSets(k) :
      LET table == SessionTable(k)
          calc == calculate_user_level(table, USERNAME, db_ok, tie) IN
        /\ progress_table = table
        /\ now = Len(table) + 1
        /\ user_progress = calc.progress
        /\ user_level = calc.level
        /\ available_questions = data
        /\ current_question_data = NoQuestion
        /\ option = NoneStr
        /\ choice_made = TRUE
        /\ start_time = 0
        /\ timer_seconds = TIMER_DURATION
        /\ after_id = FALSE
        /\ pending_ticks = 0
        /\ specific_question_windows = NoWindows
        /\ InitBackground
        /\ question_selection_method = method
        /\ win = "constructing"
        /\ served = <<>>
        /\ initial_rows = Len(table)
        /\ level_calls = <<LevelCall(table, calc)>>
        /\ save_log = <<>>
        /\ users = RegisteredUsers
        /\ store_call = NoCall
        /\ raised = FALSE
        /\ last_click = NoneStr
        /\ overwritten = FALSE
        /\ completed = FALSE

Next ==
    \/ show_next_image
    \/ NextRejected
    \/ on_checkbox_click
    \/ (TickFollowed /\ update_timer)
    \/ on_closing

Spec == Init /\ [][Next]_vars

\* SpecTimer: a session of a user without history, method Random, in which
\* the whole countdown of the first question is followed
InitTimer ==
    /\ Init
    /\ initial_rows = 0
    /\ question_selection_method = "Random"
    /\ available_questions = questions_data
CountdownFollowed == Len(served) = 1 \/ TickFollowed
NextTimer ==
    \/ show_next_image
    \/ NextRejected
    \/ on_checkbox_click
    \/ (CountdownFollowed /\ update_timer)
    \/ on_closing
SpecTimer == InitTimer /\ [][NextTimer]_vars

\* SpecLive: a session whose user never closes the window and keeps
\* choosing a letter and pressing "Next Question": a click comes about, and
\* so does a next. Once a next has raised for a question whose record
\* sqlite3 cannot bind, the further ones raise again and change nothing as
\* long as the store is reachable, and nothing obliges the store to fail.
Unbindable ==
    /\ current_question_data # NoQuestion
    /\ ~BindsParameters(AttemptRow(current_question_data, option, 0, 0))
NextComesAbout == ~(Unbindable /\ raised) /\ show_next_image
NextLive ==
    \/ show_next_image
    \/ NextRejected
    \/ on_checkbox_click
    \/ (TickFollowed /\ update_timer)
SpecLive ==
    /\ Init
    /\ [][NextLive]_vars
    /\ WF_vars(on_checkbox_click)
    /\ WF_vars(NextComesAbout)

\* SpecClock: a session of a user with history during which the wall clock
\* (time.time() and the store's CURRENT_TIMESTAMP) may be set back. It is
\* never set back behind the newest attempt_date of the table, so that the
\* rows stay dated in rowid order.
LatestAttemptDate(table) ==
    IF table = <<>> THEN 0 ELSE table[Len(table)].attempt_date
InitClock ==
    /\ Init
    /\ initial_rows = Len(SessionTable(1))
    /\ available_questions = questions_data
ClockSetBack ==
    /\ win = "running"
    /\ \E back \in 1..MaxSetBack :
         /\ now - back >= Max(1, LatestAttemptDate(progress_table))
         /\ now' = now - back
    /\ UNCHANGED <<progress_table, user_progress, user_level,
                   available_questions, current_question_data, option,
                   choice_made, start_time, timer_seconds, after_id,
                   pending_ticks, question_selection_method, win,
                   specific_question_windows, served, initial_rows,
                   level_calls, save_log, store_side, background, raised,
                   last_click, overwritten, completed>>
NextClock ==
    \/ show_next_image
    \/ NextRejected
    \/ on_checkbox_click
    \/ (TickFollowed /\ update_timer)
    \/ on_closing
    \/ ClockSetBack
SpecClock == InitClock /\ [][NextClock]_vars

\* SpecStore: a database just created, then calls of DatabaseManager by its
\* clients. The session variables stay as they are before a session.
NoUsers == [u \in {} |-> NoneStr]
Usernames == {USERNAME, OTHER_USER}
StoreQuestionNumbers == {RangeStart(1), NoneNum, TooLargeNum}
session_side == <<available_questions, current_question_data, option,
                  choice_made, start_time, timer_seconds, after_id,
                  question_selection_method, win, served, initial_rows,
                  level_calls, save_log, last_click, overwritten, completed,
                  pending_ticks, specific_question_windows>>

\* the record of a call: arg is the hash handed to add_user and before the
\* hash the store held for the username when add_user was called
StoreCall(op, username, result) ==
    [op |-> op, username |-> username, arg |-> NoneStr, before |-> NoneStr,
     result |-> result, n |-> store_call.n + 1]

InitStore ==
    /\ progress_table = <<>>
    /\ now = 1
    /\ user_progress = <<>>
    /\ user_level = 0
    /\ available_questions = <<>>
    /\ current_question_data = NoQuestion
    /\ option = NoneStr
    /\ choice_made = TRUE
    /\ start_time = 0
    /\ timer_seconds = TIMER_DURATION
    /\ after_id = FALSE
    /\ pending_ticks = 0
    /\ specific_question_windows = NoWindows
    /\ InitBackground
    /\ question_selection_method = "AI Selection"
    /\ win = "login"
    /\ served = <<>>
    /\ initial_rows = 0
    /\ level_calls = <<>>
    /\ save_log = <<>>
    /\ users = NoUsers
    /\ store_call = NoCall
    /\ raised = FALSE
    /\ last_click = NoneStr
    /\ overwritten = FALSE
    /\ completed = FALSE

\* RegistrationWindow.register_user with valid fields: the username is
\* looked up with get_user_hash, and add_user is called when that returns
\* None. The two calls use a connection each: read_ok and write_ok.
register_user ==
    /\ store_call.n < MaxStoreCalls
    /\ \E username \in Usernames, hashed_pw \in Hashes,
          read_ok \in BOOLEAN, write_ok \in BOOLEAN :
         IF get_user_hash(users, username, read_ok) # NoneStr
         THEN /\ store_call' = StoreCall("get_user_hash", username, "hash")
              /\ UNCHANGED <<users, progress_table>>
         ELSE LET added == add_user(users, progress_table, username,
                                    hashed_pw, write_ok) IN
              /\ users' = added.users
              /\ progress_table' = added.progress
              /\ store_call' =
                     [StoreCall("add_user", username,
                                IF added.success THEN "True" ELSE "False")
                        EXCEPT !.arg = hashed_pw,
                               !.before = get_user_hash(users, username, TRUE)]
    /\ UNCHANGED <<now, user_progress, user_level, raised, session_side, background>>

\* a call of save_user_progress; some time may have passed since the
\* previous call
SaveProgress ==
    /\ store_call.n < MaxStoreCalls
    /\ \E username \in Usernames, q_num \in StoreQuestionNumbers,
          img_filename \in 1..MaxQuestions, db_ok \in BOOLEAN,
          elapsed \in {0, MaxElapsed} :
         LET row == ProgressRow(username, q_num, img_filename,
                                OPTION_LETTERS[1], Letter(img_filename), 0,
                                now + elapsed)
             outcome == SaveOutcome(users, row, db_ok)
         IN  /\ now' = now + elapsed
             /\ progress_table'
                    = save_user_progress(progress_table, row, outcome = "True")
             /\ raised' = (raised \/ outcome = "raises")
             /\ store_call' = StoreCall("save_user_progress", username, outcome)
    /\ UNCHANGED <<user_progress, user_level, users, session_side, background>>

\* a call of get_user_progress
GetProgress ==
    /\ store_call.n < MaxStoreCalls
    /\ \E username \in Usernames, db_ok \in BOOLEAN, tie \in TieOrders :
         /\ user_progress' = get_user_progress(progress_table, username,
                                               db_ok, tie)
         /\ store_call' = StoreCall("get_user_progress", username,
                                    IF db_ok THEN "rows" ELSE "empty")
    /\ UNCHANGED <<progress_table, now, user_level, users, raised,
                   session_side, background>>

\* a call of calculate_user_level
CalculateLevel ==
    /\ store_call.n < MaxStoreCalls
    /\ \E username \in Usernames, db_ok \in BOOLEAN, tie \in TieOrders :
         LET calc == calculate_user_level(progress_table, username, db_ok, tie)
         IN  /\ user_progress' = calc.progress
             /\ user_level' = calc.level
             /\ store_call' = StoreCall("calculate_user_level", username,
                                        "level")
    /\ UNCHANGED <<progress_table, now, users, raised, session_side, background>>

NextStore ==
    \/ register_user
    \/ SaveProgress
    \/ GetProgress
    \/ CalculateLevel

SpecStore == InitStore /\ [][NextStore]_vars

\* SpecRegister: instances of the application on one database file, each
\* with a RegistrationWindow whose fields are valid. register_user of an
\* instance makes two calls of the store, get_user_hash and add_user, each
\* on a connection of its own; between the two, calls of another instance
\* may take place. bcrypt salts every hash, so two windows hand over
\* different hashes (here: those of neighbouring instances differ).
RegistrationHash(instance) == IF instance % 2 = 1 THEN "hash1" ELSE "hash2"
\* what the handlers of a registration window leave alone
beside_registration == <<now, user_progress, user_level, raised, store_call,
                         session_side, views_opened, ai_workers,
                         ai_processing_queue, applied>>
InitRegister ==
    /\ progress_table = <<>>
    /\ now = 1
    /\ user_progress = <<>>
    /\ user_level = 0
    /\ available_questions = <<>>
    /\ current_question_data = NoQuestion
    /\ option = NoneStr
    /\ choice_made = TRUE
    /\ start_time = 0
    /\ timer_seconds = TIMER_DURATION
    /\ after_id = FALSE
    /\ pending_ticks = 0
    /\ specific_question_windows = NoWindows
    /\ question_selection_method = "AI Selection"
    /\ win = "login"
    /\ served = <<>>
    /\ initial_rows = 0
    /\ level_calls = <<>>
    /\ save_log = <<>>
    /\ users = NoUsers
    /\ store_call = NoCall
    /\ raised = FALSE
    /\ last_click = NoneStr
    /\ overwritten = FALSE
    /\ completed = FALSE
    /\ views_opened = 0
    /\ ai_workers = {}
    /\ ai_processing_queue = <<>>
    /\ applied = {}
    /\ \E names \in [1..MaxRegistrations -> Usernames] :
         registration = [instance \in 1..MaxRegistrations |->
                            [pc |-> "fields", username |-> names[instance],
                             hashed_pw |-> RegistrationHash(instance)]]

\* register_user up to the return of get_user_hash: "already taken" when a
\* hash comes back
check_username ==
    /\ \E instance \in DOMAIN registration, read_ok \in BOOLEAN :
         /\ registration[instance].pc = "fields"
         /\ registration' = [registration EXCEPT ![instance].pc =
               IF get_user_hash(users, registration[instance].username, read_ok)
                      # NoneStr
               THEN "taken" ELSE "free"]
    /\ UNCHANGED <<users, progress_table, beside_registration>>

\* register_user from hash_password on: add_user, then "Registration
\* Successful" or "Registration Failed"
create_user ==
    /\ \E instance \in DOMAIN registration, write_ok \in BOOLEAN :
         LET added == add_user(users, progress_table,
                               registration[instance].username,
                               registration[instance].hashed_pw, write_ok)
         IN  /\ registration[instance].pc = "free"
             /\ users' = added.users
             /\ progress_table' = added.progress
             /\ registration' = [registration EXCEPT ![instance].pc =
                    IF added.success THEN "created" ELSE "failed"]
    /\ UNCHANGED beside_registration

\* the user of a window that reported an error presses Register again
register_again ==
    /\ \E instance \in DOMAIN registration :
         /\ registration[instance].pc \in {"taken", "failed"}
         /\ registration' = [registration EXCEPT ![instance].pc = "fields"]
    /\ UNCHANGED <<users, progress_table, beside_registration>>

NextRegister ==
    \/ check_username
    \/ create_user
    \/ register_again

SpecRegister == InitRegister /\ [][NextRegister]_vars

\* SpecReview: the review views of a session of a user with history, and
\* the explanations requested for them (AI_ENABLED). The rows of the
\* progress window that are clicked are those of the first MaxQuestions
\* images.
ReviewPaths ==
    {image_path \in 1..MaxQuestions :
        \E i \in DOMAIN progress_table :
            /\ progress_table[i].username = USERNAME
            /\ progress_table[i].image_filename = image_path}
beside_review == <<progress_table, now, user_progress, user_level,
                   available_questions, current_question_data, option,
                   choice_made, start_time, timer_seconds, after_id,
                   pending_ticks, question_selection_method, win, served,
                   initial_rows, level_calls, save_log, store_side, raised,
                   last_click, overwritten, completed, registration>>

InitReview ==
    /\ Init
    /\ initial_rows = Len(SessionTable(1))
    /\ question_selection_method = "Random"
    /\ available_questions = questions_data

\* __init__ shows the first question
FirstQuestion == served = <<>> /\ show_next_image

\* show_specific_question_image(image_path, correct_answer), called by
\* on_question_click: the view registered for the path is lifted when its
\* window exists; otherwise a view is created and registered under the
\* path, and request_ai_solution starts a worker with request_id=image_path
show_specific_question_image ==
    /\ win = "running"
    /\ \E image_path \in ReviewPaths :
         IF /\ image_path \in DOMAIN specific_question_windows
            /\ specific_question_windows[image_path].exists
         THEN UNCHANGED <<specific_question_windows, views_opened, ai_workers>>
         ELSE /\ views_opened < MaxViews
              /\ views_opened' = views_opened + 1
              /\ specific_question_windows' =
                     [path \in DOMAIN specific_question_windows \cup {image_path} |->
                         IF path = image_path
                         THEN [view |-> views_opened + 1, exists |-> TRUE]
                         ELSE specific_question_windows[path]]
              /\ ai_workers' = ai_workers \cup
                     {[id |-> image_path, view |-> views_opened + 1]}
    /\ UNCHANGED <<ai_processing_queue, applied, beside_review>>

\* _on_specific_question_close(image_path), from the window manager
on_specific_question_close ==
    /\ win = "running"
    /\ \E image_path \in DOMAIN specific_question_windows :
         /\ specific_question_windows[image_path].exists
         /\ specific_question_windows' =
                [path \in DOMAIN specific_question_windows \ {image_path} |->
                    specific_question_windows[path]]
    /\ UNCHANGED <<views_opened, ai_workers, ai_processing_queue, applied,
                   beside_review>>

\* _on_progress_close, also run by show_user_progress before it opens the
\* progress window again: the progress window is destroyed and with it the
\* review views, which are its children; their entries stay registered
on_progress_close ==
    /\ win = "running"
    /\ specific_question_windows' =
           [path \in DOMAIN specific_question_windows |->
               [specific_question_windows[path] EXCEPT !.exists = FALSE]]
    /\ UNCHANGED <<views_opened, ai_workers, ai_processing_queue, applied,
                   beside_review>>

\* _ai_solution_worker puts its result on the queue, success or error
ai_solution_worker ==
    /\ \E request \in ai_workers :
         /\ ai_workers' = ai_workers \ {request}
         /\ ai_processing_queue' = Append(ai_processing_queue, request)
    /\ UNCHANGED <<specific_question_windows, views_opened, applied,
                   beside_review>>

\* _check_ai_solution_queue, every 200 ms while the window exists, with a
\* result on the queue: the result goes to the view registered under its
\* id when that window exists; the entry of a window that does not exist
\* is deleted; a result with an id that is not registered is dropped
check_ai_solution_queue ==
    /\ win = "running"
    /\ ai_processing_queue # <<>>
    /\ LET result == Head(ai_processing_queue)
           request_id == result.id
       IN  /\ ai_processing_queue' = Tail(ai_processing_queue)
           /\ IF request_id \in DOMAIN specific_question_windows
              THEN IF specific_question_windows[request_id].exists
                   THEN /\ applied' = applied \cup
                              {[view |-> specific_question_windows[request_id].view,
                                from |-> result.view]}
                        /\ UNCHANGED specific_question_windows
                   ELSE /\ specific_question_windows' =
                              [path \in DOMAIN specific_question_windows
                                         \ {request_id} |->
                                  specific_question_windows[path]]
                        /\ UNCHANGED applied
              ELSE UNCHANGED <<specific_question_windows, applied>>
    /\ UNCHANGED <<views_opened, ai_workers, beside_review>>

NextReview ==
    \/ FirstQuestion
    \/ show_specific_question_image
    \/ on_specific_question_close
    \/ on_progress_close
    \/ ai_solution_worker
    \/ check_ai_solution_queue
    \/ on_closing

SpecReview == InitReview /\ [][NextReview]_vars

(***************************************************************************)
(* The properties. What they say about a history is written here from the  *)
(* definitions of the specification of the leveling engine ("attempts at   *)
(* a level", "passed", "eligible"), independently of the operators above.  *)
(***************************************************************************)
Levels == 1..num_levels

\* the attempts of a newest-first history h whose question number is set
\* and lies in the range of `level`
ClaimAttempts(h, level) ==
    LET InRange(r) == r.question_number # NoneNum
                      /\ r.question_number \in LEVEL_RANGES[level]
    IN  SelectSeq(h, InRange)

\* the correct ones among the first n attempts of a
ClaimCorrect(a, n) ==
    Cardinality({i \in 1..Min(n, Len(a)) : a[i].user_choice = a[i].correct_choice})

\* at least 25 attempts, more than 21 of the 25 most recent correct
ClaimPassed(h, level) ==
    LET a == ClaimAttempts(h, level)
    IN  Len(a) >= 25 /\ ClaimCorrect(a, 25) > 21

\* the first level that is not passed, the last level when all are
ClaimLevel(h) ==
    IF \A level \in Levels : ClaimPassed(h, level) THEN num_levels
    ELSE CHOOSE level \in Levels :
            /\ ~ClaimPassed(h, level)
            /\ \A below \in 1..(level - 1) : ClaimPassed(h, below)

\* h without the attempts older than the 25 most recent of each level
RECURSIVE WindowsOnly(_, _)
WindowsOnly(h, level) ==
    IF level > num_levels THEN <<>>
    ELSE LET a == ClaimAttempts(h, level)
         IN  SubSeq(a, 1, Min(25, Len(a))) \o WindowsOnly(h, level + 1)

\* the questions of a pool with a question number in the range of `level`
ClaimEligible(pool, level) ==
    {q \in SeqToSet(pool) :
        /\ q.question_number # NoneNum
        /\ level \in DOMAIN LEVEL_RANGES
        /\ q.question_number \in LEVEL_RANGES[level]}

\* rows written during the session for question q
RecordsFor(q) ==
    Cardinality({i \in (initial_rows + 1)..Len(progress_table) :
        /\ progress_table[i].username = USERNAME
        /\ progress_table[i].image_filename = q.image_filename})

\* calls of save_user_progress for question q, and those that succeeded
SavesFor(q) ==
    {i \in DOMAIN save_log : save_log[i].image_filename = q.image_filename}
SavedFor(q) == {i \in SavesFor(q) : save_log[i].success}

\* q was displayed and the user chose an answer for it
Answered(q) ==
    /\ q \in SeqToSet(served)
    /\ (q # current_question_data \/ choice_made)

\* the call of calculate_user_level has returned
LevelReturned == win = "constructing"

\* C1: calculate_user_level returns min(k+1, N) whenever levels 1..k each
\* have at least 25 attempts with more than 21 correct among the 25 most
\* recent and level k+1 has fewer than 25 attempts; it returns 1 for the
\* empty history, for fewer than 25 attempts at level 1 and for a history
\* with every question number outside every range, and 2 after exactly 25
\* correct attempts in range 1..5.
C1_LevelOfPassedPrefix ==
    LevelReturned =>
        /\ \A k \in 0..num_levels :
              ( /\ \A level \in 1..k : ClaimPassed(user_progress, level)
                /\ k < num_levels =>
                       Len(ClaimAttempts(user_progress, k + 1)) < 25 )
              => user_level = Min(k + 1, num_levels)
        /\ user_progress = <<>> => user_level = 1
        /\ Len(ClaimAttempts(user_progress, 1)) < 25 => user_level = 1
        /\ (\A level \in Levels : ClaimAttempts(user_progress, level) = <<>>)
              => user_level = 1
        /\ ( /\ Len(user_progress) = 25
             /\ Len(ClaimAttempts(user_progress, 1)) = 25
             /\ ClaimCorrect(user_progress, 25) = 25 )
              => user_level = 2

C1_Witness ==
    /\ LevelReturned
    /\ ClaimPassed(user_progress, 1) /\ ClaimPassed(user_progress, 2)
    /\ Len(ClaimAttempts(user_progress, 3)) \in 1..24
    /\ Len(ClaimAttempts(user_progress, 1)) = 25
    /\ user_level = 3

\* C2: a level counts as passed if and only if it has at least 25 attempts
\* in its range and strictly more than 21 of the 25 most recent have
\* user_choice equal to correct_choice: once the levels below are passed,
\* the result is above the level exactly then; exactly 21 correct does not
\* pass and 22 does; attempts older than the 25 most recent change nothing.
C2_PassedIffWindow ==
    LevelReturned =>
        /\ \A level \in Levels :
              (\A below \in 1..(level - 1) : ClaimPassed(user_progress, below))
              => LET a == ClaimAttempts(user_progress, level)
                 IN  /\ (HighestLevelPassed(user_progress, 1, 0) >= level)
                            <=> ClaimPassed(user_progress, level)
                     /\ level < num_levels =>
                            ((user_level > level)
                                <=> ClaimPassed(user_progress, level))
                     /\ (Len(a) >= 25 /\ ClaimCorrect(a, 25) = 21)
                            => user_level = level
                     /\ (Len(a) >= 25 /\ ClaimCorrect(a, 25) = 22)
                            => user_level >= Min(level + 1, num_levels)
        /\ user_level = LevelFromProgress(WindowsOnly(user_progress, 1))

C2_Witness ==
    /\ LevelReturned
    /\ ClaimPassed(user_progress, 1)
    /\ LET a == ClaimAttempts(user_progress, 2)
       IN  /\ Len(a) > 25
           /\ ClaimCorrect(a, 25) = 21
           /\ ClaimCorrect(a, Len(a)) > 21
    /\ user_level = 2

\* C3: the gate is strictly sequential: every level below the returned
\* level is passed, and when some level K is not passed the result is at
\* most K whatever the history holds at the levels above K.
C3_SequentialGate ==
    LevelReturned =>
        /\ \A below \in 1..(user_level - 1) : ClaimPassed(user_progress, below)
        /\ \A K \in Levels : ~ClaimPassed(user_progress, K) => user_level <= K

C3_Witness ==
    /\ LevelReturned
    /\ Len(ClaimAttempts(user_progress, 1)) >= 25
    /\ ~ClaimPassed(user_progress, 1)
    /\ \A above \in 2..num_levels : ClaimPassed(user_progress, above)
    /\ user_level = 1

\* C4: the session's current level is within 1..N in every reachable
\* state, for every history; when all N levels are passed it is N.
C4_LevelInRange ==
    /\ user_level \in 1..num_levels
    /\ \A i \in DOMAIN level_calls : level_calls[i].level \in 1..num_levels
    /\ (\A level \in Levels : ClaimPassed(user_progress, level))
          => user_level = num_levels

C4_Witness ==
    /\ win = "running"
    /\ question_selection_method = "AI Selection"
    /\ Len(level_calls) >= 2
    /\ \A level \in Levels : ClaimPassed(user_progress, level)
    /\ user_level = num_levels

\* C5: the level is not a ratchet: it is what the history read by the
\* latest call gives, whatever earlier calls returned, so that a later call
\* returns a lower level than an earlier one once appended wrong attempts
\* bring a passed level's window to 21 or fewer correct.
C5_LevelRecomputed ==
    /\ user_level = ClaimLevel(user_progress)
    /\ user_level = level_calls[Len(level_calls)].level

C5_LevelDropped ==
    \E i, j \in DOMAIN level_calls :
        /\ i < j
        /\ level_calls[i].fetched = level_calls[i].stored
        /\ level_calls[j].fetched = level_calls[j].stored
        /\ level_calls[j].fetched > level_calls[i].fetched
        /\ level_calls[j].level < level_calls[i].level
        /\ j = Len(level_calls)
        /\ user_level = level_calls[j].level
        /\ ~ClaimPassed(user_progress, user_level)
        /\ Len(ClaimAttempts(user_progress, user_level)) > 25

\* C6: for every strategy and every level select_next_question returns a
\* question of the current candidate pool or none, and none only when the
\* pool is empty; the question a session opens comes from its pool.
C6_SelectedFromPool ==
    /\ [][served' # served =>
              current_question_data' \in SeqToSet(available_questions)]_vars
    /\ [](\A method \in Methods \cup {"Other"}, level \in 0..(num_levels + 1) :
            LET selectable == select_next_question(available_questions,
                                                   method, level)
            IN  /\ selectable \subseteq SeqToSet(available_questions)
                /\ (selectable = {}) <=> (available_questions = <<>>))

C6_Witness ==
    /\ win = "running"
    /\ question_selection_method = "Random"
    /\ Len(served) = 2
    /\ current_question_data = served[2]
    /\ available_questions = SelectSeq(questions_data,
                                 LAMBDA q : q \notin SeqToSet(served))

\* C7: with the adaptive strategy, whenever the pool holds a question whose
\* number is set and lies in the range of the user's current level, the
\* selected question is one of those.
C7_EligibleSelected ==
    [][(/\ question_selection_method = "AI Selection"
        /\ served' # served
        /\ ClaimEligible(available_questions, user_level') # {})
       => current_question_data'
              \in ClaimEligible(available_questions, user_level')]_vars

C7_Witness ==
    /\ question_selection_method = "AI Selection"
    /\ initial_rows = 0
    /\ user_level = 1
    /\ Len(level_calls) = 2
    /\ served = <<Question(1)>>
    /\ Question(2) \in SeqToSet(available_questions)
    /\ Question(2) \notin ClaimEligible(questions_data, 1)

\* C8: with the adaptive strategy and a non-empty pool, when the current
\* level is no key of the level configuration or no pool question is
\* eligible for it, the selection is a choice over the whole pool: a pool
\* question is opened, never none or an error.
C8_FallbackToPool ==
    /\ [][(/\ question_selection_method = "AI Selection"
           /\ level_calls' # level_calls
           /\ available_questions # <<>>
           /\ ClaimEligible(available_questions, user_level') = {})
          => /\ Len(served') = Len(served) + 1
             /\ current_question_data' \in SeqToSet(available_questions)
             /\ win' = "running"]_vars
    /\ [](\A level \in 0..(num_levels + 1) :
            (/\ available_questions # <<>>
             /\ ClaimEligible(available_questions, level) = {})
            => select_next_question(available_questions, "AI Selection", level)
                   = SeqToSet(available_questions))

C8_Witness ==
    /\ question_selection_method = "AI Selection"
    /\ win = "running"
    /\ Len(level_calls) = 2
    /\ Len(served) = 1
    /\ ClaimEligible(questions_data, user_level) = {}
    /\ current_question_data = served[1]

\* C9: within one session no question is served twice: a question removed
\* from the candidate pool never re-enters it, and the pool only shrinks
\* over any sequence of next, answer and timer events.
C9_NoRepeat ==
    /\ [][/\ SeqToSet(available_questions')
                \subseteq SeqToSet(available_questions)
          /\ Len(available_questions') <= Len(available_questions)
          /\ served' # served =>
                /\ served' = Append(served, current_question_data')
                /\ current_question_data' \notin SeqToSet(available_questions')
                /\ Len(available_questions') = Len(available_questions) - 1]_vars
    /\ [](/\ \A i, j \in DOMAIN served : served[i] = served[j] => i = j
          /\ SeqToSet(served) \cap SeqToSet(available_questions) = {})

C9_Witness ==
    /\ Len(served) = MaxQuestions
    /\ available_questions = <<>>
    /\ SeqToSet(served) = SeqToSet(questions_data)
    /\ win = "closed"

\* C10, as stated: once the session is over there is exactly one record for
\* every question that was displayed and answered, store failures and
\* teardown included.
C10_OneRecordPerAnswered ==
    win = "closed" =>
        \A q \in SeqToSet(served) : Answered(q) => RecordsFor(q) = 1

\* C10, amended: there is never more than one record for a displayed
\* question; there is exactly one when an accepted "Next Question" submitted
\* its answer and the store wrote it, and none when the write failed or the
\* window was closed before the answer was submitted.
C10_OneRecordPerSavedAnswer ==
    \A q \in SeqToSet(served) :
        /\ RecordsFor(q) <= 1
        /\ Cardinality(SavesFor(q)) <= 1
        /\ RecordsFor(q) = Cardinality(SavedFor(q))
        /\ q # current_question_data => Cardinality(SavesFor(q)) = 1
        /\ (q = current_question_data /\ available_questions # <<>>)
              => SavesFor(q) = {}

C10_Witness ==
    /\ win = "closed"
    /\ Len(served) = 2
    /\ choice_made
    /\ Answered(served[1]) /\ Answered(served[2])
    /\ RecordsFor(served[1]) = 1
    /\ SavesFor(served[2]) # {}
    /\ RecordsFor(served[2]) = 0

\* a question is open and no letter has been chosen for it
AwaitingChoice ==
    win = "running" /\ current_question_data # NoQuestion /\ ~choice_made

\* the step is an accepted "next": a question is opened or the set is
\* announced complete
AcceptedNext == served' # served \/ (completed' /\ ~completed)

\* C11: a next requested while a question is open and no choice has been
\* submitted for it is rejected and changes nothing: same current question,
\* same pool, no record, timer not reset; so no two accepted nexts occur
\* without an answer in between, except the very first.
C11_NextNeedsAnswer ==
    /\ [][AwaitingChoice =>
            /\ ~AcceptedNext
            /\ current_question_data' = current_question_data
            /\ available_questions' = available_questions
            /\ progress_table' = progress_table
            /\ save_log' = save_log
            /\ start_time' = start_time
            /\ timer_seconds' <= timer_seconds]_vars
    /\ [][AcceptedNext =>
            /\ served = <<>> \/ (choice_made /\ last_click # NoneStr)
            /\ served' # served => (~choice_made' /\ last_click' = NoneStr)]_vars

C11_Witness ==
    /\ AwaitingChoice
    /\ Len(served) = 2
    /\ current_question_data = served[2]
    /\ Len(save_log) = 1
    /\ save_log[1].image_filename = served[1].image_filename
    /\ timer_seconds < TIMER_DURATION - 1

\* C12: the first next of a session, with no question open, is accepted
\* without a submitted choice, writes no record and, the pool not being
\* empty, opens the first question.
C12_FirstNext ==
    /\ [](win = "constructing" =>
            /\ current_question_data = NoQuestion
            /\ option = NoneStr /\ last_click = NoneStr
            /\ served = <<>>
            /\ ENABLED show_next_image)
    /\ [][win = "constructing" =>
            /\ progress_table' = progress_table
            /\ save_log' = save_log
            /\ ~raised'
            /\ available_questions # <<>> =>
                  /\ win' = "running"
                  /\ served' = <<current_question_data'>>
                  /\ current_question_data' \in SeqToSet(available_questions)
                  /\ ~choice_made']_vars

C12_Witness ==
    /\ win = "running"
    /\ Len(served) = 1
    /\ current_question_data = served[1]
    /\ ~choice_made /\ option = NoneStr
    /\ save_log = <<>>
    /\ Len(progress_table) = initial_rows
    /\ timer_seconds = TIMER_DURATION - 1

\* C13: when several choices are submitted for the open question before
\* next, the record written on the accepted next carries the last choice
\* submitted as user_choice, and the open question's correct_answer,
\* question_number and filename.
C13_LastChoiceSaved ==
    /\ [][Len(progress_table') > Len(progress_table) =>
            LET r == progress_table'[Len(progress_table')]
            IN  /\ Len(progress_table') = Len(progress_table) + 1
                /\ last_click # NoneStr
                /\ r.user_choice = last_click
                /\ r.correct_choice = current_question_data.correct_answer
                /\ r.question_number = current_question_data.question_number
                /\ r.image_filename = current_question_data.image_filename
                /\ r.username = USERNAME]_vars
    /\ [](win = "running" => option = last_click)

C13_Witness ==
    /\ completed
    /\ overwritten
    /\ Len(progress_table) > initial_rows
    /\ save_log # <<>>
    /\ save_log[Len(save_log)].success
    /\ save_log[Len(save_log)].image_filename
           = current_question_data.image_filename
    /\ LET r == progress_table[Len(progress_table)]
       IN  /\ r.image_filename = current_question_data.image_filename
           /\ r.user_choice = last_click
           /\ r.user_choice # r.correct_choice

\* the step is a tick of the countdown
TimerStep ==
    /\ served' = served /\ win' = win
    /\ timer_seconds' # timer_seconds \/ after_id' # after_id

\* C14: ticks and expiry of the timer gate no transition: when the
\* countdown reaches 0 the current question, the pool, the selected choice
\* and the store are unchanged (no auto-advance, no record with an empty
\* answer), and choosing a letter and pressing next stay enabled exactly as
\* before expiry.
C14_TimerGatesNothing ==
    /\ [][TimerStep =>
            /\ current_question_data' = current_question_data
            /\ available_questions' = available_questions
            /\ option' = option /\ choice_made' = choice_made
            /\ progress_table' = progress_table
            /\ save_log' = save_log
            /\ now' = now /\ start_time' = start_time]_vars
    /\ [](win = "running" =>
            /\ ENABLED on_checkbox_click
            /\ choice_made => ENABLED show_next_image
            /\ ~choice_made => (~ENABLED show_next_image /\ ENABLED NextRejected))
    /\ [](\A i \in (initial_rows + 1)..Len(progress_table) :
            progress_table[i].user_choice # NoneStr)

C14_Witness ==
    /\ win = "running"
    /\ timer_seconds = 0 /\ ~after_id
    /\ served = <<current_question_data>>
    /\ ~choice_made /\ option = NoneStr
    /\ Len(progress_table) = initial_rows
    /\ ENABLED on_checkbox_click

\* the step is a next whose save_user_progress did not write: it returned
\* False, or it raised
SaveFailed ==
    \/ /\ Len(save_log') > Len(save_log)
       /\ ~save_log'[Len(save_log')].success
    \/ raised' /\ ~raised

\* C15: when saving the record fails on an accepted next, no exception
\* reaches the session: the next question is still opened (or the session
\* finishes when the pool is empty), and the failed attempt is absent from
\* the history later level calculations read.
C15_SaveFailureTolerated ==
    [][SaveFailed =>
          /\ raised' = raised
          /\ AcceptedNext
          /\ progress_table' = progress_table]_vars

\* the rows of a user, latest saved first
NewestFirst(table, username) ==
    LET OfUser(r) == r.username = username
    IN  Reverse(SelectSeq(table, OfUser))

\* h holds the rows of a user in table, each once, by attempt_date descending
FullHistory(h, table, username) ==
    /\ Len(h) = Len(NewestFirst(table, username))
    /\ SeqToSet(h) = SeqToSet(NewestFirst(table, username))
    /\ \A i \in 1..(Len(h) - 1) : h[i].attempt_date >= h[i + 1].attempt_date

\* C16, as stated: at every question selection of a session the current
\* level is the level of the full history in the store at that moment, the
\* record just written included.
C16_LevelFreshAtSelection ==
    [][served' # served =>
          user_level' = ClaimLevel(NewestFirst(progress_table', USERNAME))]_vars

\* C16, amended: with the adaptive strategy every selection computes the
\* level anew from what the store returns at that moment, which is the
\* user's full history with the record just written or, when the read
\* fails, the empty history (level 1); with Random the level of the session
\* start is kept and nothing is read.
C16_LevelFreshWhenAdaptive ==
    [][served' # served =>
          IF question_selection_method = "AI Selection"
          THEN /\ Len(level_calls') = Len(level_calls) + 1
               /\ \/ FullHistory(user_progress', progress_table', USERNAME)
                  \/ user_progress' = <<>>
               /\ user_level' = ClaimLevel(user_progress')
          ELSE /\ user_level' = user_level
               /\ level_calls' = level_calls
               /\ user_progress' = user_progress]_vars

C16_Witness ==
    /\ question_selection_method = "AI Selection"
    /\ Len(served) = 2 /\ Len(level_calls) = 3
    /\ save_log # <<>> /\ save_log[1].success
    /\ Len(user_progress) = initial_rows + 1
    /\ user_progress[1].image_filename = served[1].image_filename
    /\ user_progress[1].attempt_date = progress_table[Len(progress_table)].attempt_date
    /\ user_level < level_calls[2].level

\* C17: the session is finished exactly when a next is accepted while the
\* pool is empty, after the save of the last question's answer; finished is
\* terminal: afterwards no question is opened, no choice is accepted and no
\* record is written by the session.
C17_FinishedTerminal ==
    /\ [][(completed' /\ ~completed) =>
            /\ available_questions = <<>>
            /\ current_question_data # NoQuestion /\ choice_made
            /\ Len(save_log') = Len(save_log) + 1
            /\ save_log'[Len(save_log')].image_filename
                   = current_question_data.image_filename
            /\ served' = served
            /\ win' = "closed"]_vars
    /\ [][(Len(save_log') > Len(save_log) /\ available_questions = <<>>)
            => (completed' /\ ~completed)]_vars
    /\ [][win # "closed"]_vars
    /\ [](completed => (win = "closed" /\ available_questions = <<>>))

C17_Witness ==
    /\ completed /\ win = "closed"
    /\ Len(served) = MaxQuestions
    /\ Len(save_log) = MaxQuestions
    /\ \A i \in DOMAIN save_log :
          save_log[i].success /\ save_log[i].image_filename = served[i].image_filename
    /\ Len(progress_table) = initial_rows + MaxQuestions
    /\ ~after_id

\* the step is a call of the store operation op
StoreStep(op) == store_call'.n # store_call.n /\ store_call'.op = op

\* C18: save_user_progress is all-or-nothing: a call either adds exactly
\* one complete record to the history of the user and returns True, or
\* leaves the store unchanged and returns False; it never raises to the
\* caller and never leaves a partial record.
C18_SaveAllOrNothing ==
    [][StoreStep("save_user_progress") =>
          \/ /\ store_call'.result = "True"
             /\ Len(progress_table') = Len(progress_table) + 1
             /\ SubSeq(progress_table', 1, Len(progress_table)) = progress_table
             /\ LET record == progress_table'[Len(progress_table')] IN
                  /\ DOMAIN record = {"username", "question_number",
                                      "image_filename", "user_choice",
                                      "correct_choice", "answer_time",
                                      "attempt_date"}
                  /\ record.username = store_call'.username
                  /\ record.attempt_date = now'
             /\ users' = users
          \/ /\ store_call'.result = "False"
             /\ progress_table' = progress_table
             /\ users' = users]_vars

\* C19: get_user_progress(username) returns every record saved for that
\* username and none of another username, newest first: a record saved
\* later never comes after one saved earlier, also when the two carry the
\* same attempt_date; it returns the empty sequence when the user has no
\* record.
C19_ProgressNewestFirst ==
    [][(StoreStep("get_user_progress") /\ store_call'.result = "rows") =>
          user_progress' = NewestFirst(progress_table, store_call'.username)]_vars

\* C20: the records are append-only: no operation of the store changes or
\* removes a record that was written, so the records of each user only
\* grow.
C20_RecordsAppendOnly ==
    [][\A u \in Usernames :
          LET before == Reverse(NewestFirst(progress_table, u))
              after == Reverse(NewestFirst(progress_table', u))
          IN  /\ Len(before) <= Len(after)
              /\ SubSeq(after, 1, Len(before)) = before]_vars

\* the records the session has written, and the questions it has advanced
\* past: those opened and then left by an accepted next
SessionRecords == Len(progress_table) - initial_rows
AdvancedPast == IF completed THEN Len(served) ELSE Max(0, Len(served) - 1)

\* C26: at most one record is written per question opened in a session:
\* over any sequence of next requests, accepted or rejected, choices and
\* timer ticks, the number of records the session has written never exceeds
\* the number of questions it has advanced past.
C26_RecordsWithinAdvanced ==
    /\ SessionRecords <= AdvancedPast
    /\ Len(save_log) = AdvancedPast

C26_Witness ==
    /\ win = "running" /\ ~completed
    /\ Len(served) = 2
    /\ SessionRecords = 1 /\ AdvancedPast = 1
    /\ choice_made /\ overwritten
    /\ timer_seconds < TIMER_DURATION - 1

\* C27: while a question is open, choice_made is true exactly when a
\* selected option is stored, so every record the session writes carries a
\* user_choice that is one of the option letters; no record without a
\* choice is saved.
C27_ChoiceStoredWhenMade ==
    /\ (win = "running" /\ current_question_data # NoQuestion)
          => (choice_made <=> option # NoneStr)
    /\ option \in SeqToSet(OPTION_LETTERS) \cup {NoneStr}
    /\ \A i \in (initial_rows + 1)..Len(progress_table) :
          /\ progress_table[i].user_choice # NoneStr
          /\ progress_table[i].user_choice \in SeqToSet(OPTION_LETTERS)

C27_Witness ==
    /\ win = "running" /\ current_question_data # NoQuestion
    /\ choice_made /\ option = OPTION_LETTERS[MaxLetters]
    /\ last_click = option /\ overwritten
    /\ SessionRecords = 1
    /\ progress_table[Len(progress_table)].user_choice = OPTION_LETTERS[1]

\* the image filenames of a list of questions
Filenames(list) == {list[i].image_filename : i \in DOMAIN list}

\* C28: in every reachable session state the pool and the questions
\* already opened are disjoint and together make up the initial question
\* list; the open question is never in the pool, and each accepted next with
\* a non-empty pool shrinks the pool by exactly one.
C28_PoolAndOpenedPartition ==
    /\ [](/\ Filenames(available_questions) \cap Filenames(served) = {}
          /\ SeqToSet(available_questions) \cup SeqToSet(served)
                \in {SeqToSet(questions_data), SeqToSet(oversized_questions_data)}
          /\ Len(available_questions) + Len(served) = MaxQuestions
          /\ current_question_data \notin SeqToSet(available_questions)
          /\ current_question_data # NoQuestion
                => current_question_data = served[Len(served)])
    /\ [][(AcceptedNext /\ available_questions # <<>>) =>
            /\ Len(available_questions') = Len(available_questions) - 1
            /\ served' = Append(served, current_question_data')
            /\ current_question_data' \in SeqToSet(available_questions)]_vars

C28_Witness ==
    /\ win = "running"
    /\ Len(served) = MaxQuestions /\ available_questions = <<>>
    /\ Filenames(served) = Filenames(questions_data)
    /\ current_question_data = served[MaxQuestions]
    /\ Len(save_log) = MaxQuestions - 1

\* the newest call of calculate_user_level found records in the store and
\* fetched none of them: the read failed
ReadFailed(calls) ==
    /\ calls # <<>>
    /\ calls[Len(calls)].fetched = 0
    /\ calls[Len(calls)].stored > 0

\* C30: when the history cannot be read, calculate_user_level does not
\* raise and returns 1 whatever the stored history is, so an adaptive
\* selection made during a store outage uses level 1.
C30_LevelOneWhenUnreadable ==
    /\ [](\A i \in DOMAIN level_calls :
             level_calls[i].fetched = 0 => level_calls[i].level = 1)
    /\ [][(Len(level_calls') > Len(level_calls) /\ ReadFailed(level_calls')) =>
            /\ raised' = raised
            /\ user_level' = 1
            /\ served' # served
            /\ ClaimEligible(available_questions, 1) # {}
                  => current_question_data' \in ClaimEligible(available_questions, 1)]_vars

C30_Witness ==
    /\ question_selection_method = "AI Selection"
    /\ Len(level_calls) = 2
    /\ level_calls[1].level > 1
    /\ ReadFailed(level_calls)
    /\ user_level = 1
    /\ served = <<Question(1)>>

\* C21: add_user has replace semantics: called with a username that exists
\* it succeeds, the store still holds exactly one user with that username,
\* and get_user_hash afterwards returns the hash supplied; called twice with
\* the same arguments it leaves the same user state as called once.
C21_AddUserReplaces ==
    /\ [](\A u \in Usernames, h \in Hashes :
            LET once == add_user(users, progress_table, u, h, TRUE)
                twice == add_user(once.users, once.progress, u, h, TRUE)
            IN  /\ once.success /\ twice.success
                /\ DOMAIN once.users = DOMAIN users \cup {u}
                /\ get_user_hash(once.users, u, TRUE) = h
                /\ \A v \in DOMAIN users \ {u} : once.users[v] = users[v]
                /\ twice.users = once.users
                /\ twice.progress = once.progress)
    /\ [][(StoreStep("add_user") /\ store_call'.before # NoneStr) =>
            IF store_call'.result = "True"
            THEN /\ DOMAIN users' = DOMAIN users
                 /\ get_user_hash(users', store_call'.username, TRUE)
                        = store_call'.arg
                 /\ \A v \in DOMAIN users \ {store_call'.username} :
                        users'[v] = users[v]
            ELSE users' = users]_vars

C21_Witness ==
    /\ store_call.op = "add_user" /\ store_call.result = "True"
    /\ store_call.before = "hash1" /\ store_call.arg = "hash2"
    /\ get_user_hash(users, store_call.username, TRUE) = "hash2"
    /\ DOMAIN users = Usernames

\* C23: the answer_time of every record is the whole number of seconds
\* between showing the question and the accepted next, and never negative:
\* it is 0 when the clock reading at next is earlier than the one at show.
C23_AnswerTimeClamped ==
    /\ [](\A i \in (initial_rows + 1)..Len(progress_table) :
             progress_table[i].answer_time >= 0)
    /\ [][Len(progress_table') > Len(progress_table) =>
            LET record == progress_table'[Len(progress_table')] IN
              /\ record.attempt_date = now'
              /\ record.answer_time = IF now' >= start_time
                                      THEN now' - start_time ELSE 0]_vars

C23_Witness ==
    /\ completed
    /\ SessionRecords = 2
    /\ progress_table[initial_rows + 1].attempt_date < initial_rows + 1
    /\ progress_table[initial_rows + 1].answer_time = 0
    /\ progress_table[initial_rows + 2].answer_time = MaxElapsed

\* C24: a session started with n questions of distinct image filenames,
\* whose user keeps choosing a letter for the open question and pressing
\* next, terminates: it opens each of the n questions exactly once and then
\* is finished, under either strategy and whether or not the saves succeed.
C24_SessionTerminates ==
    <>(/\ completed
       /\ Len(served) = MaxQuestions
       /\ Filenames(served) = Filenames(questions_data))

\* the same for the sessions whose practice set has no number beyond 64 bits
C24_TerminatesWhenBindable ==
    (available_questions = questions_data) => C24_SessionTerminates

\* C29: the countdown of a question has at most one pending tick at any
\* time: opening a question cancels the pending tick and starts the
\* countdown again at TIMER_DURATION, the remaining seconds stay within
\* 0..TIMER_DURATION, no tick is scheduled once 0 is reached, and teardown
\* cancels the pending tick, so that none fires after the session is closed.
C29_OnePendingTick ==
    /\ [](/\ pending_ticks \in {0, 1}
          /\ after_id <=> pending_ticks = 1
          /\ timer_seconds \in 0..TIMER_DURATION
          /\ win = "closed" => pending_ticks = 0)
    /\ [][served' # served =>
            /\ pending_ticks' = 1
            /\ timer_seconds' = TIMER_DURATION - 1]_vars
    /\ [][(timer_seconds = 0 /\ served' = served) =>
            /\ pending_ticks' <= pending_ticks
            /\ pending_ticks' # pending_ticks => pending_ticks' = 0
            /\ timer_seconds' = 0]_vars
    /\ [][win = "closed" => timer_seconds' = timer_seconds]_vars

C29_Witness ==
    /\ win = "closed" /\ ~completed
    /\ Len(served) = 2
    /\ pending_ticks = 0
    /\ timer_seconds = TIMER_DURATION - 1 - MaxTicks
    /\ Len(save_log) = 1

\* C25: registration through register_user never replaces an existing
\* account: it creates the user only when no user of that name exists, so
\* after any interleaving of two registrations for one username the stored
\* hash is that of the first successful registration and the second one is
\* rejected.
C25_RegistrationNeverReplaces ==
    /\ [][\A u \in DOMAIN users :
            u \in DOMAIN users' /\ users'[u] = users[u]]_vars
    /\ [](\A i, j \in DOMAIN registration :
            (/\ i # j
             /\ registration[i].username = registration[j].username
             /\ registration[i].pc = "created")
                => registration[j].pc # "created")

\* C22: a background explanation result is applied only to the review view
\* that requested it: when the requesting view has been closed before the
\* result is delivered, also when another view for the same question was
\* opened in the meantime, the result is discarded and no closed or other
\* view is updated.
C22_ResultToRequestingView ==
    /\ [][\A a \in applied' \ applied :
            /\ a.view = a.from
            /\ \E path \in DOMAIN specific_question_windows :
                  /\ specific_question_windows[path].view = a.view
                  /\ specific_question_windows[path].exists]_vars
    /\ [](\A a \in applied : a.view = a.from)

====
